---- MODULE Spec2Model ----
\* Model of the SpecGenerator wizard page
\* (src/pro_tender/pro_tender/page/spec_generator/spec_generator.js).
\*
\* The state is the SpecGenerator object's fields together with the parts of the
\* page's DOM that the handlers read back or that decide which handler a user can
\* trigger: the visible step, the #answer-input value, the loading overlay, the
\* Previous button's disabled flag, the Generate button, the progress badge.
\* One action per click handler and per frappe.call callback.
\*
\* User events follow the browser: a button inside a hidden step (display: none),
\* a hidden button or a disabled button delivers no click.  The loading overlay is
\* a fixed, full-viewport <div>: it intercepts pointer clicks but takes no focus,
\* so a focused button is still activated from the keyboard while the overlay is
\* shown.  No handler tests the overlay or any busy flag, so the user actions are
\* not guarded by it.
EXTENDS Integers, Sequences, FiniteSets

\* ---------------------------------------------------------------- bounds

\* Longest Question Set the service returns.
MaxQ == 3
\* Most service calls in flight at once.
MaxInFlight == 2

\* ---------------------------------------------------------------- values

\* Strings are sequences of tokens.  A token is one character, except "&quot;",
\* which stands for the six characters & q u o t ; typed literally.
QUOTE == "\""
ENTITY == "&quot;"
SPACE == " "

EmptyStr == <<>>
\* JavaScript's undefined (the value of .val() on an empty jQuery set).
Undefined == <<"undefined">>
\* A property JSON.stringify leaves out.
Absent == <<"absent">>

Null == "null"
\* The names create_session gives its sessions, in the order it gives them.
SessionOrder == <<"S1", "S2">>
SessionNames == {SessionOrder[i] : i \in 1..Len(SessionOrder)}

QuestionTypes == {"Text", "Select", "Date", "Number"}
\* A question_type the switch of render_question has no case for.
OtherType == "Rating"

\* What a user can enter in each widget.
TextValues == {EmptyStr, <<"a">>, <<SPACE>>, <<QUOTE>>, <<ENTITY>>}
DateValue == <<"2024-01-01">>
NumberValue == <<"7">>
\* The parsed select_options of a Select question.
SelectOptions == << <<"a">>, <<"b", QUOTE>> >>
NoOptions == <<>>

\* The error text of a failure response; "" is an absent (or empty) error.
ErrorMessages == {"", "network error"}

\* ---------------------------------------------------------------- pure helpers

RECURSIVE ReplaceQuotes(_)
\* String.prototype.replace(/"/g, '&quot;')
ReplaceQuotes(s) ==
    IF s = <<>> THEN <<>>
    ELSE (IF Head(s) = QUOTE THEN <<ENTITY>> ELSE <<Head(s)>>) \o ReplaceQuotes(Tail(s))

RECURSIVE UpToQuote(_)
\* The text of a double-quoted attribute ends at the first double quote.
UpToQuote(s) ==
    IF s = <<>> \/ Head(s) = QUOTE THEN <<>>
    ELSE <<Head(s)>> \o UpToQuote(Tail(s))

RECURSIVE DecodeEntities(_)
\* The HTML parser decodes character references in attribute values.
DecodeEntities(s) ==
    IF s = <<>> THEN <<>>
    ELSE (IF Head(s) = ENTITY THEN <<QUOTE>> ELSE <<Head(s)>>) \o DecodeEntities(Tail(s))

\* The value the browser gives an element built from  value="<s>".
AttrValue(s) == DecodeEntities(UpToQuote(s))

\* q.answer || ''
OrEmpty(a) == IF a = Undefined THEN EmptyStr ELSE a

RECURSIVE TrimLeft(_)
TrimLeft(s) ==
    IF s # <<>> /\ Head(s) = SPACE THEN TrimLeft(Tail(s)) ELSE s

RECURSIVE TrimRight(_)
TrimRight(s) ==
    IF s # <<>> /\ s[Len(s)] = SPACE THEN TrimRight(SubSeq(s, 1, Len(s) - 1)) ELSE s

\* String.prototype.trim()
Trim(s) == TrimRight(TrimLeft(s))

\* q.answer && q.answer.trim()
IsAnswered(q) == q.answer # Undefined /\ q.answer # EmptyStr /\ Trim(q.answer) # EmptyStr

RECURSIVE CountAnswered(_)
\* this.questions.filter(q => q.answer && q.answer.trim()).length
CountAnswered(qs) ==
    IF qs = <<>> THEN 0
    ELSE (IF IsAnswered(Head(qs)) THEN 1 ELSE 0) + CountAnswered(Tail(qs))

\* JavaScript numbers are IEEE-754 doubles: a 53-bit significand and an exponent, every
\* operation rounding its exact result to the nearest such number (ties to the even
\* significand).  A positive double is modelled as [sig, exp]: sig = <<s2, s1, s0>> is
\* the integer s2 * 2^40 + s1 * 2^20 + s0 in three limbs, and the number is
\* sig * 2^-(52 + exp).  The operators below are exact for 0 <= answered <= total < 2^18.
Limb == 2^20

\* The limbs <<x2, x1, x0>> with what exceeds a limb carried upwards.
Normalize(x) ==
    LET y1 == x[2] + (x[3] \div Limb)
    IN  <<x[1] + (y1 \div Limb), y1 % Limb, x[3] % Limb>>

\* The limbs x with the k lowest bits rounded away (to nearest, ties to even), kept
\* at the same scale.
RoundBits(x, k) ==
    LET q   == x[3] \div 2^k
        rem == x[3] % 2^k
        up  == rem * 2 > 2^k \/ (rem * 2 = 2^k /\ q % 2 = 1)
    IN  Normalize(<<x[1], x[2], (q + (IF up THEN 1 ELSE 0)) * 2^k>>)

\* The least e with 2^e * answered >= total, for 0 < answered <= total.
RECURSIVE Exponent(_, _)
Exponent(answered, total) ==
    IF answered >= total THEN 0 ELSE 1 + Exponent(2 * answered, total)

\* answered / total for 0 < answered <= total: the quotient 2^(52 + e) * answered / total
\* by long division, one limb at a time, rounded on the remainder.
DoubleDivide(answered, total) ==
    LET e  == Exponent(answered, total)
        n2 == answered * 2^e * 2^12
        n1 == (n2 % total) * Limb
        n0 == (n1 % total) * Limb
        r  == n0 % total
        up == 2 * r > total \/ (2 * r = total /\ (n0 \div total) % 2 = 1)
    IN  [sig |-> Normalize(<<n2 \div total, n1 \div total,
                            (n0 \div total) + (IF up THEN 1 ELSE 0)>>),
         exp |-> e]

\* x * 100 for a double x in (0, 1]: the exact product has 59 or 60 bits, of which
\* the 53 highest are kept.
DoubleTimes100(x) ==
    LET p == Normalize(<<100 * x.sig[1], 100 * x.sig[2], 100 * x.sig[3]>>)
    IN  [sig |-> RoundBits(p, IF p[1] < 2^19 THEN 6 ELSE 7), exp |-> x.exp]

\* Math.round(x) for a double x in (0, 100]: the nearest integer, halves upwards.
\* The integer part and the first fraction bit both lie in the highest limb.
MathRound(x) ==
    (x.sig[1] \div 2^(12 + x.exp))
        + (IF x.sig[1] % 2^(12 + x.exp) >= 2^(11 + x.exp) THEN 1 ELSE 0)

\* total > 0 ? Math.round((answered / total) * 100) : 0   (0 / total is 0, and
\* Math.round(0 * 100) is 0).
Percentage(answered, total) ==
    IF total > 0 /\ answered > 0
    THEN MathRound(DoubleTimes100(DoubleDivide(answered, total)))
    ELSE 0

\* JSON.stringify(this.questions): a property whose value is undefined is left out.
JSONStringify(qs) ==
    [i \in 1..Len(qs) |-> [qs[i] EXCEPT !.answer = IF @ = Undefined THEN Absent ELSE @]]

\* <input type="date"> and <input type="number"> hold a valid value or "".
Sanitize(v, valid) == IF v = valid THEN v ELSE EmptyStr

\* The <select> built by render_question: the option whose text is q.answer is
\* marked selected; with none marked the first option ("-- Select --", value "")
\* is the selected one.  An option's value is its value attribute as parsed.
SelectValue(q) ==
    LET hits == {i \in 1..Len(q.select_options) : q.select_options[i] = q.answer}
    IN  IF hits = {} THEN EmptyStr
        ELSE AttrValue(q.select_options[CHOOSE i \in hits : \A j \in hits : j <= i])

\* The Text case of render_question: the answer with its double quotes replaced.
TextAttr(a) == ReplaceQuotes(a)

\* $('#answer-input').val() right after render_question has rendered q.
InputValueFor(q) ==
    CASE q.question_type = "Text"   -> AttrValue(TextAttr(OrEmpty(q.answer)))
      [] q.question_type = "Select" -> SelectValue(q)
      [] q.question_type = "Date"   -> Sanitize(AttrValue(OrEmpty(q.answer)), DateValue)
      [] q.question_type = "Number" -> Sanitize(AttrValue(OrEmpty(q.answer)), NumberValue)
      [] OTHER                      -> Undefined

\* The values a user can give the widget rendered for q.
WidgetValues(q) ==
    CASE q.question_type = "Text"   -> TextValues
      [] q.question_type = "Select" ->
             {EmptyStr} \cup {AttrValue(q.select_options[i]) : i \in 1..Len(q.select_options)}
      [] q.question_type = "Date"   -> {EmptyStr, DateValue}
      [] q.question_type = "Number" -> {EmptyStr, NumberValue}
      [] OTHER                      -> {}

\* ---------------------------------------------------------------- service inputs

TypeCycle == <<"Select", "Text", "Date", "Number", OtherType>>

\* A question as the service returns it.
NewQuestion(t) ==
    [question_malay |-> <<"Question of type ", t>>,
     question_type |-> t,
     select_options |-> IF t = "Select" THEN SelectOptions ELSE NoOptions,
     answer |-> EmptyStr]

\* r.message.questions: the lists of at most MaxQ questions whose types run through
\* TypeCycle from "Select" or from "Number" (each type occurs, each in several places).
QuestionSets ==
    {[i \in 1..n |-> NewQuestion(TypeCycle[((i - 1 + off) % Len(TypeCycle)) + 1])] :
        n \in 0..MaxQ, off \in {0, 3}}

\* r.message of a successful generate_specification, as the fields the page reads:
\* whether each url is present, and the pdf_generated flag.
GenerateResults ==
    [markdown_file_url : BOOLEAN, pdf_file_url : BOOLEAN, pdf_generated : BOOLEAN]

Methods == {"create_session", "analyze_and_generate_questions", "save_answers",
            "generate_specification"}
CallKeys == Methods \X (SessionNames \cup {Null})

\* ---------------------------------------------------------------- state

VARIABLES
    current_question_index, \* this.current_question_index
    session_name,           \* this.session_name
    questions,              \* this.questions
    questions_session,      \* session_name argument of the call that returned this.questions
    visible_step,           \* the .step-content that go_to_step left shown
    question_container,     \* index of the question in #question-container, -1 when empty
    answer_input,           \* $('#answer-input').val()
    loading_overlay,        \* #loading-overlay is shown
    prev_disabled,          \* #btn-prev-question's disabled property
    next_label,             \* #btn-next-question's text
    progress,               \* #progress-badge and #progress-bar
    generate_btn_visible,   \* #btn-generate-spec is shown
    download_section,       \* what #download-section shows
    inflight,               \* frappe.call requests not yet settled
    last,                   \* the step just taken: its handler, inputs, message, call
    nav                     \* progress of a previous/next (or next/previous) pair

vars == <<current_question_index, session_name, questions, questions_session, visible_step,
          question_container, answer_input, loading_overlay, prev_disabled,
          next_label, progress, generate_btn_visible, download_section,
          inflight, last, nav>>

NoMsg == [via |-> "none", text |-> <<>>]
Msgprint(text) == [via |-> "msgprint", text |-> text]
ShowAlert(text) == [via |-> "show_alert", text |-> text]

NoCall == [method |-> "none", session_name |-> Null, answers |-> <<>>]
Call(method, s, answers) == [method |-> method, session_name |-> s, answers |-> answers]

\* The r.message of a step that is no generate_specification success.
NoResult == [markdown_file_url |-> FALSE, pdf_file_url |-> FALSE, pdf_generated |-> FALSE]

Event(ev, project, template, err, msg, call) ==
    [ev |-> ev, project |-> project, template |-> template, err |-> err,
     msg |-> msg, call |-> call, result |-> NoResult]

NoDownloads == [shown |-> FALSE, markdown_link |-> FALSE, pdf_link |-> FALSE,
                record_link |-> FALSE]

NavIdle == [phase |-> "idle", index |-> 0, questions |-> <<>>]

InFlightCount ==
    LET RECURSIVE Sum(_)
        Sum(S) == IF S = {} THEN 0
                  ELSE LET c == CHOOSE x \in S : TRUE IN inflight[c] + Sum(S \ {c})
    IN  Sum(CallKeys)

Issue(f, method, s) == [f EXCEPT ![<<method, s>>] = @ + 1]
Settle(f, method, s) == [f EXCEPT ![<<method, s>>] = @ - 1]

Init ==
    /\ current_question_index = 0
    /\ session_name = Null
    /\ questions = <<>>
    /\ questions_session = Null
    /\ visible_step = 1
    /\ question_container = -1
    /\ answer_input = Undefined
    /\ loading_overlay = FALSE
    /\ prev_disabled = TRUE
    /\ next_label = "Next"
    /\ progress = [answered |-> 0, total |-> 0, percentage |-> 0]
    /\ generate_btn_visible = TRUE
    /\ download_section = NoDownloads
    /\ inflight = [k \in CallKeys |-> 0]
    /\ last = Event("init", "", "", "", NoMsg, NoCall)
    /\ nav = NavIdle

\* ---------------------------------------------------------------- handler parts

\* update_progress, for the question list qs.
UpdateProgress(qs) ==
    progress' = [answered |-> CountAnswered(qs), total |-> Len(qs),
                 percentage |-> Percentage(CountAnswered(qs), Len(qs))]

\* update_navigation, for the question list qs and the index just set.
UpdateNavigation(qs, index) ==
    /\ prev_disabled' = (index = 0)
    /\ next_label' = IF index = Len(qs) - 1 THEN "Finish" ELSE "Next"

\* render_question keeping the cursor one-based: the index it records is one above
\* the index it renders.
RenderQuestionOneBased(qs, index) ==
    IF index < 0 \/ index >= Len(qs)
    THEN UNCHANGED <<current_question_index, question_container, answer_input,
                     progress, prev_disabled, next_label>>
    ELSE /\ current_question_index' = index + 1
         /\ question_container' = index
         /\ answer_input' = InputValueFor(qs[index + 1])
         /\ UpdateProgress(qs)
         /\ UpdateNavigation(qs, index)

\* render_question(index) over the question list qs.
RenderQuestion(qs, index) ==
    IF index < 0 \/ index >= Len(qs)
    THEN UNCHANGED <<current_question_index, question_container, answer_input,
                     progress, prev_disabled, next_label>>
    ELSE /\ current_question_index' = index
         /\ question_container' = index
         /\ answer_input' = InputValueFor(qs[index + 1])
         /\ UpdateProgress(qs)
         /\ UpdateNavigation(qs, index)

\* save_current_answer writing to this.questions[0] whatever the cursor is.
SaveCurrentAnswerFirst ==
    IF current_question_index < Len(questions)
    THEN [questions EXCEPT ![1].answer = answer_input]
    ELSE questions

\* save_current_answer: the question list after it.
SaveCurrentAnswer ==
    IF current_question_index < Len(questions)
    THEN [questions EXCEPT ![current_question_index + 1].answer = answer_input]
    ELSE questions

\* start_analysis validating with "and" where the code has "or": one selection is enough.
SelectionOkEither(project, template) == project # "" \/ template # ""

\* The test of start_analysis: both selections are non-empty.
SelectionOk(project, template) == project # "" /\ template # ""

\* show_next_question testing one index short: the question before the last already
\* counts as the last one.
HasNextShort(index, qs) == index < Len(qs) - 2

\* The test of show_next_question: there is a question after the current one.
HasNext(index, qs) == index < Len(qs) - 1

\* show_previous_question testing one index short: from the second question there is
\* no way back.
HasPreviousShort(index) == index > 1

\* The test of show_previous_question.
HasPrevious(index) == index > 0

\* r.message?.error || fallback
ErrorOr(err, fallback) == IF err # "" THEN err ELSE fallback

\* The nav record after a click on Previous (before = the state the click found).
Interior(index, qs) == 0 < index /\ index < Len(qs) - 1
Unedited == answer_input = InputValueFor(questions[current_question_index + 1])
NavStart(phase) ==
    IF Interior(current_question_index, questions) /\ Unedited
    THEN [phase |-> phase, index |-> current_question_index, questions |-> questions]
    ELSE NavIdle
NavOnPrevious ==
    IF nav.phase = "next" THEN [nav EXCEPT !.phase = "next-prev"] ELSE NavStart("prev")
NavOnNext ==
    IF nav.phase = "prev" THEN [nav EXCEPT !.phase = "prev-next"] ELSE NavStart("next")

\* ---------------------------------------------------------------- user actions

\* #btn-start-analysis click: start_analysis.
StartAnalysis(project, template) ==
    /\ visible_step = 1
    /\ nav' = NavIdle
    /\ IF ~SelectionOk(project, template)
       THEN /\ last' = Event("start_analysis", project, template, "",
                             Msgprint(<<"Please select both project and template">>), NoCall)
            /\ UNCHANGED <<current_question_index, session_name, questions, questions_session,
                   visible_step,
                           question_container, answer_input, loading_overlay,
                           prev_disabled, next_label, progress, generate_btn_visible,
                           download_section, inflight>>
       ELSE /\ InFlightCount < MaxInFlight
            /\ loading_overlay' = TRUE
            /\ inflight' = Issue(inflight, "create_session", Null)
            /\ last' = Event("start_analysis", project, template, "", NoMsg,
                             Call("create_session", Null, <<>>))
            /\ UNCHANGED <<current_question_index, session_name, questions, questions_session,
                   visible_step,
                           question_container, answer_input, prev_disabled, next_label,
                           progress, generate_btn_visible, download_section>>

\* The user changes the value of #answer-input.
EditAnswer(v) ==
    /\ visible_step = 2
    /\ question_container >= 0
    /\ question_container < Len(questions)
    /\ v \in WidgetValues(questions[question_container + 1])
    /\ v # answer_input
    /\ answer_input' = v
    /\ last' = Event("edit", "", "", "", NoMsg, NoCall)
    /\ nav' = NavIdle
    /\ UNCHANGED <<current_question_index, session_name, questions, questions_session,
                   visible_step,
                   question_container, loading_overlay, prev_disabled, next_label,
                   progress, generate_btn_visible, download_section, inflight>>

\* #btn-prev-question click: save_current_answer, then show_previous_question.
PreviousQuestion ==
    /\ visible_step = 2
    /\ ~prev_disabled
    /\ questions' = SaveCurrentAnswer
    /\ IF HasPrevious(current_question_index)
       THEN RenderQuestion(questions', current_question_index - 1)
       ELSE UNCHANGED <<current_question_index, question_container, answer_input,
                        progress, prev_disabled, next_label>>
    /\ last' = Event("previous", "", "", "", NoMsg, NoCall)
    /\ nav' = NavOnPrevious
    /\ UNCHANGED <<session_name, questions_session, visible_step, loading_overlay,
                   generate_btn_visible, download_section, inflight>>

\* #btn-next-question click: save_current_answer, then show_next_question, which
\* renders the next question or calls save_all_answers.
NextQuestion ==
    /\ visible_step = 2
    /\ questions' = SaveCurrentAnswer
    /\ IF HasNext(current_question_index, questions')
       THEN /\ RenderQuestion(questions', current_question_index + 1)
            /\ last' = Event("next", "", "", "", NoMsg, NoCall)
            /\ nav' = NavOnNext
            /\ UNCHANGED <<loading_overlay, inflight>>
       ELSE /\ InFlightCount < MaxInFlight
            /\ loading_overlay' = TRUE
            /\ inflight' = Issue(inflight, "save_answers", session_name)
            /\ last' = Event("next", "", "", "", NoMsg,
                             Call("save_answers", session_name, JSONStringify(questions')))
            /\ nav' = NavIdle
            /\ UNCHANGED <<current_question_index, question_container, answer_input,
                           progress, prev_disabled, next_label>>
    /\ UNCHANGED <<session_name, questions_session, visible_step, generate_btn_visible,
                   download_section>>

\* #btn-generate-spec click: generate_specification.
GenerateSpecification ==
    /\ visible_step = 3
    /\ generate_btn_visible
    /\ InFlightCount < MaxInFlight
    /\ loading_overlay' = TRUE
    /\ inflight' = Issue(inflight, "generate_specification", session_name)
    /\ last' = Event("generate", "", "", "", NoMsg,
                     Call("generate_specification", session_name, <<>>))
    /\ nav' = NavIdle
    /\ UNCHANGED <<current_question_index, session_name, questions, questions_session,
                   visible_step,
                   question_container, answer_input, prev_disabled, next_label,
                   progress, generate_btn_visible, download_section>>

\* ---------------------------------------------------------------- frappe.call settlements

\* go_to_step(step)
GoToStep(step) == visible_step' = step

\* analyze_and_generate_questions without its empty-list branch.
NoQuestionsNever(qs) == Len(qs) < 0

\* The empty-list test of the generate-questions callback inverted (!== for ===).
NoQuestionsInverted(qs) == Len(qs) # 0

\* The branch of analyze_and_generate_questions' callback: the list is empty.
NoQuestions(qs) == Len(qs) = 0

\* r.message.session_name of the next successful create_session: a new name each
\* time (Null once the names are used up).
FreshSession ==
    IF session_name = Null THEN SessionOrder[1]
    ELSE LET i == CHOOSE j \in 1..Len(SessionOrder) : SessionOrder[j] = session_name
         IN  IF i < Len(SessionOrder) THEN SessionOrder[i + 1] ELSE Null

\* create_session callback, r.message.success: the session is kept and
\* analyze_and_generate_questions issues the next call.
CreateSessionOk(s) ==
    /\ inflight[<<"create_session", Null>>] > 0
    /\ s = FreshSession
    /\ session_name' = s
    /\ loading_overlay' = TRUE
    /\ inflight' = Issue(Settle(inflight, "create_session", Null),
                         "analyze_and_generate_questions", s)
    /\ last' = Event("create_session_ok", "", "", "", NoMsg,
                     Call("analyze_and_generate_questions", s, <<>>))
    /\ nav' = NavIdle
    /\ UNCHANGED <<current_question_index, questions, questions_session, visible_step,
                   question_container, answer_input, prev_disabled, next_label, progress,
                   generate_btn_visible, download_section>>

\* create_session callback without r.message.success.
CreateSessionFail(err) ==
    /\ inflight[<<"create_session", Null>>] > 0
    /\ inflight' = Settle(inflight, "create_session", Null)
    /\ loading_overlay' = FALSE
    /\ last' = Event("create_session_fail", "", "", err,
                     Msgprint(<<ErrorOr(err, "Unknown error")>>), NoCall)
    /\ nav' = NavIdle
    /\ UNCHANGED <<current_question_index, session_name, questions, questions_session,
                   visible_step,
                   question_container, answer_input, prev_disabled, next_label,
                   progress, generate_btn_visible, download_section>>

\* create_session error handler (the request itself failed).
CreateSessionError ==
    /\ inflight[<<"create_session", Null>>] > 0
    /\ inflight' = Settle(inflight, "create_session", Null)
    /\ loading_overlay' = FALSE
    /\ last' = Event("create_session_error", "", "", "",
                     Msgprint(<<"Error connecting to server">>), NoCall)
    /\ nav' = NavIdle
    /\ UNCHANGED <<current_question_index, session_name, questions, questions_session,
                   visible_step,
                   question_container, answer_input, prev_disabled, next_label,
                   progress, generate_btn_visible, download_section>>

\* analyze_and_generate_questions callback, r.message.success.
GenerateQuestionsOk(s, qs) ==
    /\ inflight[<<"analyze_and_generate_questions", s>>] > 0
    /\ inflight' = Settle(inflight, "analyze_and_generate_questions", s)
    /\ loading_overlay' = FALSE
    /\ questions' = qs
    /\ questions_session' = s
    /\ IF NoQuestions(qs)
       THEN /\ GoToStep(3)
            /\ last' = Event("generate_questions_ok", "", "", "",
                             Msgprint(<<"All information is already available from approval documents.">>),
                             NoCall)
            /\ UNCHANGED <<current_question_index, question_container, answer_input,
                           progress, prev_disabled, next_label>>
       ELSE /\ GoToStep(2)
            /\ RenderQuestion(qs, 0)
            /\ last' = Event("generate_questions_ok", "", "", "", NoMsg,
                             NoCall)
    /\ nav' = NavIdle
    /\ UNCHANGED <<session_name, generate_btn_visible, download_section>>

\* analyze_and_generate_questions callback without r.message.success.
GenerateQuestionsFail(s, err) ==
    /\ inflight[<<"analyze_and_generate_questions", s>>] > 0
    /\ inflight' = Settle(inflight, "analyze_and_generate_questions", s)
    /\ loading_overlay' = FALSE
    /\ last' = Event("generate_questions_fail", "", "", err,
                     Msgprint(<<ErrorOr(err, "Error generating questions")>>), NoCall)
    /\ nav' = NavIdle
    /\ UNCHANGED <<current_question_index, session_name, questions, questions_session,
                   visible_step,
                   question_container, answer_input, prev_disabled, next_label,
                   progress, generate_btn_visible, download_section>>

\* analyze_and_generate_questions error handler.
GenerateQuestionsError(s) ==
    /\ inflight[<<"analyze_and_generate_questions", s>>] > 0
    /\ inflight' = Settle(inflight, "analyze_and_generate_questions", s)
    /\ loading_overlay' = FALSE
    /\ last' = Event("generate_questions_error", "", "", "",
                     Msgprint(<<"Gemini API Error. Please check your API key in Gemini Settings.">>),
                     NoCall)
    /\ nav' = NavIdle
    /\ UNCHANGED <<current_question_index, session_name, questions, questions_session,
                   visible_step,
                   question_container, answer_input, prev_disabled, next_label,
                   progress, generate_btn_visible, download_section>>

\* save_answers callback, r.message.success.
SaveAnswersOk(s) ==
    /\ inflight[<<"save_answers", s>>] > 0
    /\ inflight' = Settle(inflight, "save_answers", s)
    /\ loading_overlay' = FALSE
    /\ GoToStep(3)
    /\ last' = Event("save_answers_ok", "", "", "", NoMsg, NoCall)
    /\ nav' = NavIdle
    /\ UNCHANGED <<current_question_index, session_name, questions, questions_session,
                   question_container, answer_input, prev_disabled, next_label, progress,
                   generate_btn_visible, download_section>>

\* save_answers callback without r.message.success: the callback has no else branch.
SaveAnswersFail(s, err) ==
    /\ inflight[<<"save_answers", s>>] > 0
    /\ inflight' = Settle(inflight, "save_answers", s)
    /\ loading_overlay' = FALSE
    /\ last' = Event("save_answers_fail", "", "", err, NoMsg, NoCall)
    /\ nav' = NavIdle
    /\ UNCHANGED <<current_question_index, session_name, questions, questions_session,
                   visible_step,
                   question_container, answer_input, prev_disabled, next_label,
                   progress, generate_btn_visible, download_section>>

\* save_answers request failed: save_all_answers passes no error handler, so no
\* code of the page runs.
SaveAnswersError(s) ==
    /\ inflight[<<"save_answers", s>>] > 0
    /\ inflight' = Settle(inflight, "save_answers", s)
    /\ last' = Event("save_answers_error", "", "", "", NoMsg, NoCall)
    /\ nav' = NavIdle
    /\ UNCHANGED <<current_question_index, session_name, questions, questions_session,
                   visible_step,
                   question_container, answer_input, loading_overlay, prev_disabled,
                   next_label, progress, generate_btn_visible, download_section>>

\* show_download_links without its last statement: the links are built and the
\* Generate button is left as it was.
ShowDownloadLinksKeepButton(result) ==
    /\ download_section' = [shown |-> TRUE,
                            markdown_link |-> result.markdown_file_url,
                            pdf_link |-> result.pdf_file_url,
                            record_link |-> TRUE]
    /\ generate_btn_visible' = generate_btn_visible

\* show_download_links offering the PDF link on the pdf_generated flag instead of on
\* the presence of pdf_file_url.
ShowDownloadLinksOnFlag(result) ==
    /\ download_section' = [shown |-> TRUE,
                            markdown_link |-> result.markdown_file_url,
                            pdf_link |-> result.pdf_generated,
                            record_link |-> TRUE]
    /\ generate_btn_visible' = FALSE

\* show_download_links(result): one link per url present, and the record link;
\* the Generate button is hidden.
ShowDownloadLinks(result) ==
    /\ download_section' = [shown |-> TRUE,
                            markdown_link |-> result.markdown_file_url,
                            pdf_link |-> result.pdf_file_url,
                            record_link |-> TRUE]
    /\ generate_btn_visible' = FALSE

\* generate_specification callback, r.message.success.
GenerateSpecificationOk(s, result) ==
    /\ inflight[<<"generate_specification", s>>] > 0
    /\ inflight' = Settle(inflight, "generate_specification", s)
    /\ loading_overlay' = FALSE
    /\ ShowDownloadLinks(result)
    /\ last' = [Event("generate_specification_ok", "", "", "",
                      ShowAlert(IF result.pdf_generated
                                THEN <<"Document generated successfully!">>
                                ELSE <<"Document generated successfully!",
                                       " (Note: PDF generation failed, but Markdown is available)">>),
                      NoCall)
                    EXCEPT !.result = result]
    /\ nav' = NavIdle
    /\ UNCHANGED <<current_question_index, session_name, questions, questions_session,
                   visible_step,
                   question_container, answer_input, prev_disabled, next_label, progress>>

\* generate_specification callback without r.message.success.
GenerateSpecificationFail(s, err) ==
    /\ inflight[<<"generate_specification", s>>] > 0
    /\ inflight' = Settle(inflight, "generate_specification", s)
    /\ loading_overlay' = FALSE
    /\ last' = Event("generate_specification_fail", "", "", err,
                     Msgprint(<<"Error: ", ErrorOr(err, "Unknown")>>), NoCall)
    /\ nav' = NavIdle
    /\ UNCHANGED <<current_question_index, session_name, questions, questions_session,
                   visible_step,
                   question_container, answer_input, prev_disabled, next_label,
                   progress, generate_btn_visible, download_section>>

\* generate_specification error handler; err.message is the request's own text.
GenerateSpecificationError(s, err) ==
    /\ inflight[<<"generate_specification", s>>] > 0
    /\ err # ""
    /\ inflight' = Settle(inflight, "generate_specification", s)
    /\ loading_overlay' = FALSE
    /\ last' = Event("generate_specification_error", "", "", err,
                     Msgprint(<<"Error generating specification: ", err>>), NoCall)
    /\ nav' = NavIdle
    /\ UNCHANGED <<current_question_index, session_name, questions, questions_session,
                   visible_step,
                   question_container, answer_input, prev_disabled, next_label,
                   progress, generate_btn_visible, download_section>>

\* ---------------------------------------------------------------- specification

\* Every value some widget can hold.
InputValues ==
    TextValues \cup {DateValue, NumberValue}
        \cup {AttrValue(SelectOptions[i]) : i \in 1..Len(SelectOptions)}

Selections == {"", "P1"}
Templates == {"", "T1"}
Sessions == SessionNames \cup {Null}

Next ==
    \/ \E project \in Selections, template \in Templates : StartAnalysis(project, template)
    \/ \E v \in InputValues : EditAnswer(v)
    \/ PreviousQuestion
    \/ NextQuestion
    \/ GenerateSpecification
    \/ \E s \in SessionNames : CreateSessionOk(s)
    \/ \E err \in ErrorMessages : CreateSessionFail(err)
    \/ CreateSessionError
    \/ \E s \in Sessions, qs \in QuestionSets : GenerateQuestionsOk(s, qs)
    \/ \E s \in Sessions, err \in ErrorMessages : GenerateQuestionsFail(s, err)
    \/ \E s \in Sessions : GenerateQuestionsError(s)
    \/ \E s \in Sessions : SaveAnswersOk(s)
    \/ \E s \in Sessions, err \in ErrorMessages : SaveAnswersFail(s, err)
    \/ \E s \in Sessions : SaveAnswersError(s)
    \/ \E s \in Sessions, result \in GenerateResults : GenerateSpecificationOk(s, result)
    \/ \E s \in Sessions, err \in ErrorMessages : GenerateSpecificationFail(s, err)
    \/ \E s \in Sessions, err \in ErrorMessages : GenerateSpecificationError(s, err)

Spec == Init /\ [][Next]_vars

\* ---------------------------------------------------------------- sanity

TypeOK ==
    /\ current_question_index \in 0..MaxQ
    /\ session_name \in Sessions
    /\ questions_session \in Sessions
    /\ Len(questions) <= MaxQ
    /\ visible_step \in 1..3
    /\ question_container \in -1..MaxQ
    /\ loading_overlay \in BOOLEAN
    /\ prev_disabled \in BOOLEAN
    /\ generate_btn_visible \in BOOLEAN
    /\ InFlightCount <= MaxInFlight

\* ---------------------------------------------------------------- claims

ValidationMessage == Msgprint(<<"Please select both project and template">>)

SaveKeys == {k \in CallKeys : k[1] = "save_answers"}

FailureEvents ==
    {"create_session_fail", "create_session_error",
     "generate_questions_fail", "generate_questions_error",
     "save_answers_fail", "save_answers_error",
     "generate_specification_fail", "generate_specification_error"}

\* C1: a start action with the project empty, the template empty or both empty
\* issues no service call, reports the validation failure and leaves the stage,
\* the session, the questions and the cursor as they were.
C1_MissingSelectionIsLocal ==
    [][(last'.ev = "start_analysis" /\ (last'.project = "" \/ last'.template = ""))
        => /\ last'.call = NoCall
           /\ inflight' = inflight
           /\ last'.msg = ValidationMessage
           /\ visible_step' = visible_step
           /\ session_name' = session_name
           /\ questions' = questions
           /\ current_question_index' = current_question_index]_vars

\* C1 witness: in the Selecting stage the start action has just run with exactly
\* one of the two selections empty.
C1_Witness ==
    /\ last.ev = "start_analysis"
    /\ last.project = ""
    /\ last.template = "T1"
    /\ visible_step = 1
    /\ last.msg = ValidationMessage

\* C2: after a failure of createSession or of generateQuestions the stage is
\* Selecting, the session is unset and the questions are empty.
C2_NothingRetainedAfterFailedStart ==
    [][(last'.ev \in {"create_session_fail", "create_session_error",
                      "generate_questions_fail", "generate_questions_error"})
        => /\ visible_step' = 1
           /\ session_name' = Null
           /\ questions' = <<>>]_vars

\* C3: the stage leaves Selecting only when generateQuestions succeeds;
\* generateQuestions is issued only by a successful createSession and carries the
\* id it returned; every saveAnswers and generateDocument call carries the non-null
\* session id that the successful generateQuestions carried.
C3_OneSessionThroughout ==
    [][/\ (visible_step = 1 /\ visible_step' # 1)
            => (last'.ev = "generate_questions_ok" /\ questions_session' # Null)
       /\ (last'.call.method = "analyze_and_generate_questions")
            => (/\ last'.ev = "create_session_ok"
                /\ last'.call.session_name = session_name'
                /\ session_name' # Null)
       /\ (last'.call.method \in {"save_answers", "generate_specification"})
            => (/\ last'.call.session_name # Null
                /\ last'.call.session_name = questions_session')]_vars

C5_GeneratingOnlyAfterSave ==
    [][/\ (last'.ev = "next") => (current_question_index' <= Len(questions') - 1)
       /\ (visible_step = 2 /\ visible_step' = 3) => (last'.ev = "save_answers_ok")]_vars

\* C6: when saveAnswers fails with an error message the stage remains Answering,
\* the cursor remains at the last index, the message is shown and the answers are
\* unchanged.
C6_SaveFailureIsSurfaced ==
    [][(last'.ev = "save_answers_fail" /\ last'.err # "")
        => /\ visible_step' = 2
           /\ current_question_index' = Len(questions') - 1
           /\ questions' = questions
           /\ \E i \in 1..Len(last'.msg.text) : last'.msg.text[i] = last'.err]_vars

\* C7: every failure of a service call is reported: with the operation's own
\* message when it has one, with a fallback message otherwise.
C7_EveryFailureIsReported ==
    [][(last'.ev \in FailureEvents)
        => /\ last'.msg # NoMsg
           /\ (last'.err # "")
                => (\E i \in 1..Len(last'.msg.text) : last'.msg.text[i] = last'.err)]_vars

\* C8: when a call settles with a failure and no other call is outstanding, the
\* waiting indicator is hidden.
C8_IndicatorHiddenAfterFailure ==
    [][(last'.ev \in FailureEvents /\ InFlightCount' = 0) => ~loading_overlay']_vars

\* C9: at most one service call is outstanding at any time.
C9_OneCallOutstanding == InFlightCount <= 1

\* C10: previous then next, or next then previous, from an interior cursor
\* position with the input left as rendered, returns to the same cursor with every
\* answer as before (stated for Question Sets of the four known types).
C10_NavigationRoundTrip ==
    (/\ nav.phase \in {"prev-next", "next-prev"}
     /\ \A i \in 1..Len(nav.questions) : nav.questions[i].question_type \in QuestionTypes)
        => /\ current_question_index = nav.index
           /\ questions = nav.questions

\* The answer a save_answers payload carries for the in-memory answer a: the text
\* itself; JSON has no undefined, so an undefined answer has no "answer" member.
Carried(a) == IF a = Undefined THEN Absent ELSE a

\* C11: save_answers is issued only by a click on Next that finds the cursor at the
\* last index, and its payload is the list the page then holds: as many questions, in
\* the same order (text, type and options position by position), each with its
\* in-memory answer, the last one with the value just read from its input.
C11_SaveOnlyAtLastWithFullSet ==
    [][(\/ last'.call.method = "save_answers"
        \/ \E k \in SaveKeys : inflight'[k] > inflight[k])
        => /\ last'.ev = "next"
           /\ visible_step = 2
           /\ current_question_index = Len(questions) - 1
           /\ current_question_index' = current_question_index
           /\ last'.call.session_name = session_name
           /\ Len(last'.call.answers) = Len(questions)
           /\ Len(questions') = Len(questions)
           /\ \A i \in 1..Len(questions) :
                /\ last'.call.answers[i].question_malay = questions[i].question_malay
                /\ last'.call.answers[i].question_type = questions[i].question_type
                /\ last'.call.answers[i].select_options = questions[i].select_options
                /\ last'.call.answers[i].answer = Carried(questions'[i].answer)
                /\ i # Len(questions) => questions'[i].answer = questions[i].answer
           /\ questions'[Len(questions)].answer = answer_input]_vars

\* A save has just been issued for a list of several questions whose answers, the last
\* one included, were typed in on the way.
C11_Witness ==
    /\ last.ev = "next"
    /\ last.call.method = "save_answers"
    /\ Len(questions) = 3
    /\ \A i \in 1..3 : /\ questions[i].answer \notin {EmptyStr, Undefined}
                       /\ last.call.answers[i].answer = questions[i].answer

\* The longest question list of the progress specification.
MaxTotal == 200

\* A list of total Text questions: the first answered ones hold a text, the others
\* are empty or hold only a space.
ProgressSample(answered, total) ==
    [i \in 1..total |->
        [NewQuestion("Text") EXCEPT !.answer = IF i <= answered THEN <<"a">>
                                                ELSE IF i % 2 = 0 THEN <<SPACE>>
                                                ELSE EmptyStr]]

\* update_progress over a list with one more question than the last one had.
ProgressOneMore ==
    /\ progress.total < MaxTotal
    /\ UpdateProgress(ProgressSample(progress.answered, progress.total + 1))
    /\ UNCHANGED <<current_question_index, session_name, questions, questions_session,
                   visible_step, question_container, answer_input, loading_overlay,
                   prev_disabled, next_label, generate_btn_visible, download_section,
                   inflight, last, nav>>

\* update_progress over a list with one more answered question than the last one had.
ProgressOneAnswered ==
    /\ progress.answered < progress.total
    /\ UpdateProgress(ProgressSample(progress.answered + 1, progress.total))
    /\ UNCHANGED <<current_question_index, session_name, questions, questions_session,
                   visible_step, question_container, answer_input, loading_overlay,
                   prev_disabled, next_label, generate_btn_visible, download_section,
                   inflight, last, nav>>

ProgressNext == ProgressOneMore \/ ProgressOneAnswered

\* update_progress alone, over every number of answered questions in lists of up to
\* MaxTotal questions.
SpecProgress == Init /\ [][ProgressNext]_vars

\* C12: for a non-empty question list the percentage shown is 100 * answered / total
\* rounded to the nearest integer (the integer p with p - 1/2 <= 100 * answered / total
\* < p + 1/2), and it is 100 only when every question is answered.
C12_PercentageIsRounded ==
    progress.total >= 1
        => /\ 2 * progress.total * progress.percentage
                <= 200 * progress.answered + progress.total
           /\ 200 * progress.answered + progress.total
                < 2 * progress.total * (progress.percentage + 1)
           /\ progress.percentage = 100 => progress.answered = progress.total

GenerateKeys == {k \in CallKeys : k[1] = "generate_specification"}

GenerateFailures == {"generate_specification_fail", "generate_specification_error"}

C15_PreviousPersistsThenDecrements ==
    [][last'.ev = "previous"
        => /\ Len(questions') = Len(questions)
           /\ \A i \in 1..Len(questions) :
                questions'[i] = IF i = current_question_index + 1
                                THEN [questions[i] EXCEPT !.answer = answer_input]
                                ELSE questions[i]
           /\ current_question_index > 0
                => current_question_index' = current_question_index - 1
           /\ current_question_index = 0
                => current_question_index' = current_question_index
           /\ visible_step' = visible_step
           /\ inflight' = inflight
           /\ last'.call = NoCall
           /\ last'.msg = NoMsg]_vars

\* Previous has just been clicked on the second question with a value in its input:
\* the value is kept in the list and the first question is shown.
C15_Witness ==
    /\ last.ev = "previous"
    /\ visible_step = 2
    /\ current_question_index = 0
    /\ question_container = 0
    /\ Len(questions) >= 2
    /\ questions[2].answer \notin {EmptyStr, Undefined}

C17_AnswersAreStrings ==
    \A i \in 1..Len(questions) :
        /\ questions[i].answer # Undefined
        /\ questions[i].answer # Absent

\* The options of question q as a set.
OptionsOf(q) == {q.select_options[i] : i \in 1..Len(q.select_options)}

\* C18: a Next or Previous click on a Select question leaves that question's answer
\* either empty or equal to one of the question's options; left at "-- Select --" the
\* answer is the empty string, as for an unanswered Text, Date or Number question.
C18_SelectAnswerIsAnOption ==
    [][(/\ last'.ev \in {"next", "previous"}
        /\ current_question_index < Len(questions)
        /\ questions[current_question_index + 1].question_type = "Select")
        => /\ questions'[current_question_index + 1].answer
                \in {EmptyStr} \cup OptionsOf(questions[current_question_index + 1])
           /\ answer_input = EmptyStr
                => questions'[current_question_index + 1].answer = EmptyStr]_vars

\* C19: a step that puts a question of a type outside Text, Select, Date and Number
\* at the cursor, or that navigates away from one, tells the user so with an error
\* message.
C19_UnknownTypeIsReported ==
    [][(\/ /\ last'.ev = "generate_questions_ok"
           /\ questions' # <<>>
           /\ questions'[current_question_index' + 1].question_type \notin QuestionTypes
        \/ /\ last'.ev \in {"next", "previous"}
           /\ current_question_index' # current_question_index
           /\ questions'[current_question_index' + 1].question_type \notin QuestionTypes
        \/ /\ last'.ev \in {"next", "previous"}
           /\ current_question_index < Len(questions)
           /\ questions[current_question_index + 1].question_type \notin QuestionTypes)
        => last'.msg.via = "msgprint"]_vars

\* What of question q never changes: its text, type and options.
Fixed(q) == [q EXCEPT !.answer = EmptyStr]

C21_SessionNeverChanges ==
    [][session_name # Null => session_name' = session_name]_vars

\* The questions of qs whose answer, stripped, is a non-empty text.
AnsweredIn(qs) ==
    {i \in 1..Len(qs) : /\ qs[i].answer \notin {Undefined, EmptyStr}
                        /\ Trim(qs[i].answer) # EmptyStr}

\* C22: after every Next or Previous click that leaves the page in Answering, and
\* after a save_answers failure that follows a Next click at the last index, the
\* progress badge shows the number of questions with a non-blank in-memory answer
\* and the length of the question list.
C22_ProgressFollowsNavigation ==
    [][(/\ last'.ev \in {"next", "previous", "save_answers_fail", "save_answers_error"}
        /\ visible_step' = 2)
        => /\ progress'.answered = Cardinality(AnsweredIn(questions'))
           /\ progress'.total = Len(questions')]_vars

\* C23: in every state, with the Selecting step shown the question list is empty;
\* with the Answering step shown the list is non-empty and the session is set; with
\* the Generating step shown the session is set.
C23_StageMatchesData ==
    /\ visible_step = 1 => questions = <<>>
    /\ visible_step = 2 => (questions # <<>> /\ session_name # Null)
    /\ visible_step = 3 => session_name # Null

\* Answering has been reached on the second attempt, after the first one failed:
\* questions are there and the session is set, with nothing in flight.
C23_Witness ==
    /\ visible_step = 2
    /\ last.ev = "generate_questions_ok"
    /\ questions # <<>>
    /\ session_name = "S2"
    /\ InFlightCount = 0

\* C24: the step shown never goes back to an earlier one (Selecting 1, Answering 2,
\* Generating 3), and Generating comes up only in a step in which save_answers
\* succeeds or generate-questions succeeds with an empty list.
C24_StageOnlyMovesForward ==
    [][/\ visible_step' >= visible_step
       /\ (visible_step # 3 /\ visible_step' = 3)
            => \/ last'.ev = "save_answers_ok"
               \/ (last'.ev = "generate_questions_ok" /\ questions' = <<>>)]_vars

==============================================================================
